---- MODULE Spec2Model ----
(***************************************************************************)
(* Model of the chunked parallel S3 downloader of src/s3/download.go:      *)
(* Open (probe, Content-Length parsing, partition into range chunks, the   *)
(* feeder goroutine), downloader.Read over io.MultiReader, chunk.Read,     *)
(* chunk.Download, the worker loop downloader.download and Close.          *)
(*                                                                         *)
(* Chunks are numbered 1..N here (chunk i of the model is chunk i-1 of the *)
(* Go slice).  The object served by the remote end is the byte sequence    *)
(* 0, 1, ..., L-1: the byte at offset j has value j, so a skipped,         *)
(* duplicated or reordered byte is visible in the delivered stream.        *)
(***************************************************************************)
EXTENDS Integers, Sequences, FiniteSets, TLC

\* ------------------------------------------------------------------ bounds
\* Largest object length announced by a well-formed Content-Length header.
MaxLength == 3
\* Largest value of the package constant minPartSize explored.
MaxPartSize == 2
\* Largest value of the package constant concurrency explored.
MaxConcurrency == 2
\* Largest len(p) a caller passes to downloader.Read.
MaxReadLen == 1
\* Number of goroutines calling downloader.Read concurrently in SpecRace.
NumRacers == 2
\* Most values a header key of the request given to RoundTrip holds.
MaxValues == 2

\* ------------------------------------------------------------- vocabulary
NoErr == "nil"
EOF == "EOF"
\* a released buffer: c.buf = nil
Nil == "nilbuf"

Min(a, b) == IF a < b THEN a ELSE b

\* What the remote end answers to the HEAD probe: url.Parse failure, a
\* transport error out of retry(), or a response with a status code.
ProbeOutcomes == {"urlerr", "neterr", "200", "206", "403"}

\* What the remote end answers to one range GET: a transport error out of
\* retry(), a response whose status is not 206, a 206 whose body breaks
\* while it is copied, or a complete 206.
ChunkResponses == {"206", "206broken", "200", "neterr"}

\* ErrorOf with the status test of Download inverted (== 206 for != 206).
ErrorOfInverted(resp) ==
    CASE resp = "206" -> "err:status"
      [] resp = "206broken" -> "err:body"
      [] resp = "neterr" -> "err:transport"
      [] OTHER -> NoErr

\* Download without its test of the status code: a 200 answer passes.
ErrorOfAccept200(resp) ==
    CASE resp = "206" -> NoErr
      [] resp = "200" -> NoErr
      [] resp = "206broken" -> "err:body"
      [] resp = "neterr" -> "err:transport"
      [] OTHER -> "err:status"

\* The error values Download can return for each answer.
ErrorOf(resp) ==
    CASE resp = "206" -> NoErr
      [] resp = "206broken" -> "err:body"
      [] resp = "neterr" -> "err:transport"
      [] OTHER -> "err:status"

Digits == <<"0", "1", "2", "3", "4", "5", "6", "7", "8", "9">>
IsDigit(ch) == \E d \in 1..10 : Digits[d] = ch
DigitVal(ch) == (CHOOSE d \in 1..10 : Digits[d] = ch) - 1

\* Content-Length header values offered to Open: the canonical decimal
\* strings of 0..MaxLength, and malformed or signed variants.  A missing
\* header is the empty string (http.Header.Get returns "").
HeaderValues ==
    { <<Digits[n + 1]>> : n \in 0..MaxLength }
    \cup { <<>>, <<"x">>, <<"1", "x">>, <<"-">>, <<"+", "2">>, <<"0", "1">>,
           <<"-", "1">>, <<"-", "0">> }

\* ------------------------------------------------------------------ state
VARIABLES
    concurrency,   \* package constant concurrency (workers, readAhead capacity)
    minPartSize,   \* package constant minPartSize
    nCallers,      \* goroutines that call Read/Close on the handle
    probe,         \* answer to the HEAD probe given to Open
    header,        \* Content-Length header value of the probe response
    openRet,       \* "none" before Open; "ok" or the error Open returned
    ranges,        \* Range header of each chunk: [start, end], end inclusive
    plan,          \* answer the remote end gave to each chunk's range GET ("none" before it)
    done,          \* chunk.done closed
    buf,           \* chunk.buf: delivered-from-front byte sequence, or Nil
    cerr,          \* chunk.err
    nDownloads,    \* how many times chunk.Download ran on each chunk
    fed,           \* chunks the feeder goroutine has handed over d.chunks
    tokens,        \* values buffered in d.readAhead
    released,      \* sends completed on d.readAhead
    derr,          \* d.err
    pubAt,         \* index of the first readAhead receive that follows a write of d.err
    onceDone,      \* d.once has run
    started,       \* goroutines launched with "go d.download()"
    mr,            \* io.MultiReader: index of the first remaining reader
    wpc,           \* worker position: "off", "recv", "download", "record", "acquire", "exited"
    wchunk,        \* chunk a worker holds
    werr,          \* err returned by the worker's c.Download()
    cpc,           \* caller position: "idle", "multi", "chunk"
    cp,            \* len(p) of the caller's current Read
    ccur,          \* chunk reader the caller's MultiReader.Read is calling
    cret,          \* the latest return of Read or Close: [op, n, err]
    csent,         \* index of the caller's latest completed readAhead send
    delivered,     \* bytes returned to callers so far: <<chunk, byte>> pairs
    crashed,       \* the process died of a nil-pointer panic
    tSigner,       \* Transport.Signer: "nil" or "set"
    tTransport,    \* Transport.Transport: "nil" or "custom"
    hmaps,         \* heap of http.Header maps: key -> slice address, 0 when absent
    hslices,       \* heap of []string header values
    treq,          \* RoundTrip's r: [id, hdr], request struct and its Header map
    callerHeader,  \* what the caller's request header held when RoundTrip was called
    tpc,           \* RoundTrip position: "off", "call", "sign", "forward", "done"
    signedReq,     \* request structs that were passed to Signer.Sign
    forwarded,     \* what the underlying RoundTripper was called with: [to, req, hdr]
    tret           \* RoundTrip's return: "none", "err:nosigner", "resp", "err:transport"

vars == <<concurrency, minPartSize, nCallers, probe, header, openRet, ranges,
          plan, done, buf, cerr, nDownloads, fed, tokens, released, derr,
          pubAt, onceDone, started, mr, wpc, wchunk, werr, cpc, cp, ccur,
          cret, csent, delivered, crashed, tSigner, tTransport, hmaps,
          hslices, treq, callerHeader, tpc, signedReq, forwarded, tret>>

transportVars == <<tSigner, tTransport, hmaps, hslices, treq, callerHeader,
                   tpc, signedReq, forwarded, tret>>

config == <<concurrency, minPartSize, nCallers>>
openVars == <<probe, header, openRet, ranges, plan>>
chunkVars == <<done, buf, cerr, nDownloads>>
workerVars == <<wpc, wchunk, werr>>
callerVars == <<cpc, cp, ccur, cret, csent>>

N == Len(ranges)
Workers == 1..concurrency
Callers == 1..nCallers

\* ------------------------------------------------------- pure functions

\* strconv.ParseUint(s, 10, 64) on a string without sign: every character
\* must be a decimal digit and there must be at least one.  (The range
\* error needs more than 18 digits and is out of reach of HeaderValues.)
RECURSIVE UintValue(_)
UintValue(s) ==
    IF s = <<>> THEN 0
    ELSE 10 * UintValue(SubSeq(s, 1, Len(s) - 1)) + DigitVal(s[Len(s)])

ParseUint(s) ==
    IF s = <<>> \/ \E j \in 1..Len(s) : ~IsDigit(s[j])
    THEN [ok |-> FALSE, val |-> 0]
    ELSE [ok |-> TRUE, val |-> UintValue(s)]

\* strconv.ParseInt(s, 10, 64): an optional leading "+" or "-", then
\* ParseUint; a leading "-" negates the value.
ParseInt(s) ==
    IF s = <<>> THEN [ok |-> FALSE, val |-> 0]
    ELSE LET neg == s[1] = "-"
             rest == IF s[1] \in {"+", "-"} THEN Tail(s) ELSE s
             u == ParseUint(rest)
         IN  IF ~u.ok THEN u
             ELSE [ok |-> TRUE, val |-> IF neg THEN 0 - u.val ELSE u.val]

min64(a, b) == IF a < b THEN a ELSE b

\* The size Open gives the chunk that starts at offset i of an object of
\* s bytes.
PartSize(i, s, part) == min64(part, s)

\* The loop "for i := int64(0); i < s; { ... i += size }" of Open: the
\* Range header bytes=<start>-<end> of every chunk, in creation order.
RECURSIVE CreateChunks(_, _, _)
CreateChunks(i, s, part) ==
    IF i < s
    THEN LET size == PartSize(i, s, part)
         IN  <<[start |-> i, end |-> i + size - 1]>>
                 \o CreateChunks(i + size, s, part)
    ELSE <<>>

\* Object length the remote end holds: the value its Content-Length
\* announces when that is a length, else 0.
ObjectLength ==
    LET r == ParseInt(header)
    IN  IF r.ok /\ r.val >= 0 THEN r.val ELSE 0

\* Body of a 206 answer to "Range: bytes=start-end" for an object of len
\* bytes (RFC 7233: an end beyond the last byte means up to the last byte).
ServerBody(rg, len) ==
    [j \in 1..(Min(rg.end, len - 1) - rg.start + 1) |-> rg.start + j - 1]

Payload(i) == ServerBody(ranges[i], ObjectLength)

Tag(i, bytes) == [j \in 1..Len(bytes) |-> <<i, bytes[j]>>]

\* ----------------------------------------------------------------- Init
DownloaderInit(callers) ==
    /\ concurrency \in 1..MaxConcurrency
    /\ minPartSize \in 1..MaxPartSize
    /\ nCallers = callers
    /\ probe = "none"
    /\ header = <<>>
    /\ openRet = "none"
    /\ ranges = <<>>
    /\ plan = <<>>
    /\ done = <<>>
    /\ buf = <<>>
    /\ cerr = <<>>
    /\ nDownloads = <<>>
    /\ fed = 0
    /\ tokens = 0
    /\ released = 0
    /\ derr = NoErr
    /\ pubAt = 0
    /\ onceDone = FALSE
    /\ started = 0
    /\ mr = 1
    /\ wpc = [w \in 1..concurrency |-> "off"]
    /\ wchunk = [w \in 1..concurrency |-> 0]
    /\ werr = [w \in 1..concurrency |-> NoErr]
    /\ cpc = [c \in 1..callers |-> "idle"]
    /\ cp = [c \in 1..callers |-> 0]
    /\ ccur = [c \in 1..callers |-> 0]
    /\ cret = [op |-> "none", n |-> 0, err |-> NoErr]
    /\ csent = [c \in 1..callers |-> 0]
    /\ delivered = <<>>
    /\ crashed = FALSE

\* No RoundTrip is under way.
TransportIdle ==
    /\ tSigner = "nil"
    /\ tTransport = "nil"
    /\ hmaps = <<>>
    /\ hslices = <<>>
    /\ treq = [id |-> 0, hdr |-> 0]
    /\ callerHeader = <<>>
    /\ tpc = "off"
    /\ signedReq = {}
    /\ forwarded = [to |-> "none", req |-> 0, hdr |-> 0]
    /\ tret = "none"

InitWith(callers) == DownloaderInit(callers) /\ TransportIdle

Init == InitWith(1)

\* Racing callers are explored with the largest part size (fewest chunks)
\* and a pool of one worker.
InitRace == InitWith(NumRacers) /\ minPartSize = MaxPartSize /\ concurrency = 1

\* ----------------------------------------------------------------- Open

\* OpenResult with the status test weakened to "not a client error".
OpenResultLaxStatus(pr, hdr) ==
    CASE pr = "urlerr" -> "err:url"
      [] pr = "neterr" -> "err:transport"
      [] pr = "403" -> "err:status"
      [] ~ParseInt(hdr).ok -> "err:format"
      [] OTHER -> "ok"

\* What Open returns for a probe answer and a Content-Length value.
OpenResult(pr, hdr) ==
    CASE pr = "urlerr" -> "err:url"
      [] pr = "neterr" -> "err:transport"
      [] pr # "200" -> "err:status"
      [] ~ParseInt(hdr).ok -> "err:format"
      [] OTHER -> "ok"

\* Open(uri, c): probe, parse Content-Length, create the chunks and the
\* MultiReader over them, launch the feeder goroutine (which blocks on its
\* first send until a worker receives).
Open ==
    /\ openRet = "none"
    /\ \E pr \in ProbeOutcomes :
       \E hdr \in (IF pr \in {"urlerr", "neterr"} THEN {<<>>} ELSE HeaderValues) :
         LET ret == OpenResult(pr, hdr)
             chunks == IF ret = "ok"
                       THEN CreateChunks(0, ParseInt(hdr).val, minPartSize)
                       ELSE <<>>
             n == Len(chunks)
         IN  /\ probe' = pr
             /\ header' = hdr
             /\ openRet' = ret
             /\ ranges' = chunks
             /\ plan' = [i \in 1..n |-> "none"]
             /\ done' = [i \in 1..n |-> FALSE]
             /\ buf' = [i \in 1..n |-> <<>>]
             /\ cerr' = [i \in 1..n |-> NoErr]
             /\ nDownloads' = [i \in 1..n |-> 0]
             /\ mr' = 1
    /\ UNCHANGED <<transportVars, config, fed, tokens, released, derr, pubAt, onceDone,
                   started, workerVars, callerVars, delivered,
                   crashed>>

\* -------------------------------------------------------------- workers

\* A worker that takes its admission slot before it takes a chunk.
ClaimNeedsSlot(w) ==
    /\ ~crashed
    /\ wpc[w] = "recv"
    /\ fed < N
    /\ tokens > 0
    /\ tokens' = tokens - 1
    /\ fed' = fed + 1
    /\ wchunk' = [wchunk EXCEPT ![w] = fed + 1]
    /\ wpc' = [wpc EXCEPT ![w] = "download"]
    /\ UNCHANGED <<transportVars, config, openVars, chunkVars, released, derr, pubAt,
                   onceDone, started, mr, werr, callerVars, delivered,
                   crashed>>

\* Claim by a worker goroutine that was launched by Open instead of by the
\* first Read.
ClaimBeforeStart(w) ==
    /\ ~crashed
    /\ wpc[w] \in {"off", "recv"}
    /\ fed < N
    /\ fed' = fed + 1
    /\ wchunk' = [wchunk EXCEPT ![w] = fed + 1]
    /\ wpc' = [wpc EXCEPT ![w] = "download"]
    /\ UNCHANGED <<transportVars, config, openVars, chunkVars, tokens, released, derr,
                   pubAt, onceDone, started, mr, werr, callerVars,
                   delivered, crashed>>

\* A work queue that hands the chunk at its head to a worker without
\* removing it.
ClaimNoAdvance(w) ==
    /\ ~crashed
    /\ wpc[w] = "recv"
    /\ fed < N
    /\ wchunk' = [wchunk EXCEPT ![w] = fed + 1]
    /\ wpc' = [wpc EXCEPT ![w] = "download"]
    /\ fed' = IF \E v \in Workers : wchunk[v] = fed + 1 THEN fed + 1 ELSE fed
    /\ UNCHANGED <<transportVars, config, openVars, chunkVars, tokens, released, derr,
                   pubAt, onceDone, started, mr, werr, callerVars,
                   delivered, crashed>>

\* Whether d.chunks is closed once the feeder has sent every chunk: the
\* feeder goroutine returns after its last send without closing it, and
\* nothing else closes it.
ChunksClosed == FALSE

\* "for c := range d.chunks" meeting the feeder's "d.chunks <- c": the
\* channel is unbuffered, so the feeder's send and one worker's receive
\* are one step; the feeder offers the chunks in slice order.  With no
\* chunk left the range loop ends only on a closed channel.  The workers
\* waiting in the receive are indistinguishable (each holds no chunk and
\* no error), so of those waiting the one with the lowest index stands
\* for whichever the runtime picks.
Claim(w) ==
    /\ ~crashed
    /\ wpc[w] = "recv"
    /\ \A v \in 1..(w - 1) : wpc[v] # "recv"
    /\ IF fed < N
       THEN /\ fed' = fed + 1
            /\ wchunk' = [wchunk EXCEPT ![w] = fed + 1]
            /\ wpc' = [wpc EXCEPT ![w] = "download"]
       ELSE /\ ChunksClosed
            /\ wpc' = [wpc EXCEPT ![w] = "exited"]
            /\ UNCHANGED <<fed, wchunk>>
    /\ UNCHANGED <<transportVars, config, openVars, chunkVars, tokens, released, derr,
                   pubAt, onceDone, started, mr, werr, callerVars, delivered, crashed>>

\* What c.buf holds when Download returns, for each answer of the remote
\* end: the whole body after a complete 206, a proper prefix of it when
\* the body breaks during buf.ReadFrom, nothing otherwise.
BufAfter(i, resp) ==
    CASE resp = "206" -> {buf[i] \o Payload(i)}
      [] resp = "206broken" ->
            {buf[i] \o SubSeq(Payload(i), 1, m) : m \in 0..(Len(Payload(i)) - 1)}
      [] OTHER -> {buf[i]}

\* Download with close(c.done) at the end of the success path instead of
\* deferred.
DownloadCloseOnSuccess(w) ==
    /\ ~crashed
    /\ wpc[w] = "download"
    /\ \E resp \in ChunkResponses :
         LET i == wchunk[w]
             e == ErrorOf(resp)
         IN  /\ plan' = [plan EXCEPT ![i] = resp]
             /\ \E b \in BufAfter(i, resp) : buf' = [buf EXCEPT ![i] = b]
             /\ done' = [done EXCEPT ![i] = (e = NoErr)]
             /\ nDownloads' = [nDownloads EXCEPT ![i] = @ + 1]
             /\ werr' = [werr EXCEPT ![w] = e]
             /\ wpc' = [wpc EXCEPT ![w] = IF e # NoErr THEN "record" ELSE "acquire"]
    /\ UNCHANGED <<transportVars, config, probe, header, openRet, ranges, cerr, fed, tokens,
                   released, derr, pubAt, onceDone, started, mr, wchunk,
                   callerVars, delivered, crashed>>

\* c.Download() up to its return: the range GET through retry(), the
\* status test, the copy of the body, and the deferred close(c.done).
Download(w) ==
    /\ ~crashed
    /\ wpc[w] = "download"
    /\ \E resp \in ChunkResponses :
         LET i == wchunk[w]
             e == ErrorOf(resp)
         IN  /\ plan' = [plan EXCEPT ![i] = resp]
             /\ \E b \in BufAfter(i, resp) : buf' = [buf EXCEPT ![i] = b]
             /\ done' = [done EXCEPT ![i] = TRUE]
             /\ nDownloads' = [nDownloads EXCEPT ![i] = @ + 1]
             /\ werr' = [werr EXCEPT ![w] = e]
             /\ wpc' = [wpc EXCEPT ![w] = IF e # NoErr THEN "record" ELSE "acquire"]
    /\ UNCHANGED <<transportVars, config, probe, header, openRet, ranges, cerr, fed, tokens, released, derr, pubAt,
                   onceDone, started, mr, wchunk, callerVars, delivered, crashed>>

\* "d.err = err" in the worker loop, after Download has returned an error.
Record(w) ==
    /\ ~crashed
    /\ wpc[w] = "record"
    /\ derr' = werr[w]
    /\ wpc' = [wpc EXCEPT ![w] = "acquire"]
    /\ UNCHANGED <<transportVars, config, openVars, chunkVars, fed, tokens, released, pubAt,
                   onceDone, started, mr, wchunk, werr, callerVars, delivered, crashed>>

\* The worker loop without its wait on d.readAhead.
AcquireNoWait(w) ==
    /\ ~crashed
    /\ wpc[w] = "acquire"
    /\ wpc' = [wpc EXCEPT ![w] = "recv"]
    /\ wchunk' = [wchunk EXCEPT ![w] = 0]
    /\ werr' = [werr EXCEPT ![w] = NoErr]
    /\ UNCHANGED <<transportVars, config, openVars, chunkVars, fed, tokens, released, derr,
                   pubAt, onceDone, started, mr, callerVars, delivered,
                   crashed>>

\* "<-d.readAhead" at the end of the loop body.  The receive is the first
\* synchronisation after a write of d.err by this worker; its index among
\* all receives on the channel is remembered for the readers of d.err.
Acquire(w) ==
    /\ ~crashed
    /\ wpc[w] = "acquire"
    /\ tokens > 0
    /\ tokens' = tokens - 1
    /\ pubAt' = IF werr[w] # NoErr /\ pubAt = 0
                THEN released - tokens + 1
                ELSE pubAt
    /\ wpc' = [wpc EXCEPT ![w] = "recv"]
    /\ wchunk' = [wchunk EXCEPT ![w] = 0]
    /\ werr' = [werr EXCEPT ![w] = NoErr]
    /\ UNCHANGED <<transportVars, config, openVars, chunkVars, fed, released, derr, onceDone,
                   started, mr, callerVars, delivered, crashed>>

\* -------------------------------------------------------------- callers

\* d.err is written by the workers and read by Read and Close with no
\* lock.  A read that no synchronisation orders after the write may return
\* the old nil or the written error.  The only order from a worker to a
\* caller is the channel rule of d.readAhead: the k-th receive happens
\* before the (k+cap)-th send completes.
MustSee(c) == pubAt # 0 /\ csent[c] >= pubAt + concurrency

Observable(c) ==
    IF derr = NoErr THEN {NoErr}
    ELSE IF MustSee(c) THEN {derr}
    ELSE {NoErr, derr}

\* The start of the workers without the sync.Once guard.
OnceDoUnguarded ==
    /\ onceDone' = TRUE
    /\ started' = started + concurrency
    /\ wpc' = [w \in Workers |-> IF wpc[w] = "off" THEN "recv" ELSE wpc[w]]

\* d.once.Do(func() { for i := 0; i < concurrency; i++ { go d.download() } })
OnceDo ==
    IF onceDone
    THEN UNCHANGED <<onceDone, started, wpc>>
    ELSE /\ onceDone' = TRUE
         /\ started' = started + concurrency
         /\ wpc' = [w \in Workers |-> "recv"]

\* downloader.Read(p) up to the call of d.r.Read(p): the test of d.err
\* and the one-shot start of the workers.
ReadEnter(c) ==
    /\ ~crashed
    /\ openRet = "ok"
    /\ cpc[c] = "idle"
    /\ \E p \in 0..MaxReadLen : \E seen \in Observable(c) :
         IF seen # NoErr
         THEN /\ cret' = [op |-> "Read", n |-> 0, err |-> seen]
              /\ UNCHANGED <<cpc, cp, onceDone, started, wpc>>
         ELSE /\ OnceDo
              /\ cpc' = [cpc EXCEPT ![c] = "multi"]
              /\ cp' = [cp EXCEPT ![c] = p]
              /\ cret' = [op |-> "Read", n |-> 0, err |-> "pending"]
    /\ UNCHANGED <<transportVars, config, openVars, chunkVars, fed, tokens, released, derr,
                   pubAt, mr, wchunk, werr, ccur, csent, delivered,
                   crashed>>

\* A reassembly that takes whichever remaining chunk has finished first.
NextReaderFirstDone ==
    IF \E i \in mr..N : done[i] /\ buf[i] # Nil
    THEN CHOOSE i \in mr..N :
            /\ done[i] /\ buf[i] # Nil
            /\ \A j \in mr..(i - 1) : ~(done[j] /\ buf[j] # Nil)
    ELSE mr

\* The reader io.MultiReader calls next: the first of those remaining.
NextReader == mr

\* The caller's Read returns (n, err): its locals go out of scope.
Return(c, n, err) ==
    /\ cret' = [op |-> "Read", n |-> n, err |-> err]
    /\ cpc' = [cpc EXCEPT ![c] = "idle"]
    /\ cp' = [cp EXCEPT ![c] = 0]
    /\ ccur' = [ccur EXCEPT ![c] = 0]

\* Head of the loop of io.MultiReader.Read: with no reader left it
\* returns (0, EOF); otherwise it calls Read on the first remaining one.
MultiRead(c) ==
    /\ ~crashed
    /\ cpc[c] = "multi"
    /\ IF mr > N
       THEN Return(c, 0, EOF)
       ELSE /\ ccur' = [ccur EXCEPT ![c] = NextReader]
            /\ cpc' = [cpc EXCEPT ![c] = "chunk"]
            /\ UNCHANGED <<cret, cp>>
    /\ UNCHANGED <<transportVars, config, openVars, chunkVars, fed, tokens, released, derr,
                   pubAt, onceDone, started, mr, workerVars, csent,
                   delivered, crashed>>

\* An end-of-data test that fires as soon as a read can take all that is
\* left in the buffer.
BufferDrainedBy(b, p) == p > 0 /\ Len(b) <= p

\* c.buf.Read(p) returns io.EOF: the buffer is empty and p is not.
BufferAtEOF(b, p) == b = <<>> /\ p > 0

\* chunk.Read(p) called by the MultiReader, and what the MultiReader does
\* with its result.  It waits for c.done, returns c.err when set, and
\* otherwise reads c.buf (bytes.Buffer.Read: an empty buffer gives
\* (0, EOF), or (0, nil) when len(p) = 0).  On EOF it sends on c.readAhead
\* (blocking while the channel is full), drops the buffer, and the
\* MultiReader moves on to the next reader.  Reading a dropped buffer is
\* a nil-pointer dereference.
ChunkRead(c) ==
    /\ ~crashed
    /\ cpc[c] = "chunk"
    /\ LET i == ccur[c]
           p == cp[c]
       IN  /\ done[i]
           /\ IF cerr[i] # NoErr
              THEN /\ Return(c, 0, cerr[i])
                   /\ UNCHANGED <<buf, tokens, released, mr, csent, delivered,
                                  crashed>>
              ELSE IF buf[i] = Nil
              THEN /\ crashed' = TRUE
                   /\ UNCHANGED <<buf, tokens, released, mr, csent, delivered,
                                  cret, cpc, cp, ccur>>
              ELSE IF BufferAtEOF(buf[i], p)
              THEN /\ tokens < concurrency
                   /\ tokens' = tokens + 1
                   /\ released' = released + 1
                   /\ csent' = [csent EXCEPT ![c] = released + 1]
                   /\ buf' = [buf EXCEPT ![i] = Nil]
                   /\ mr' = mr + 1
                   /\ cpc' = [cpc EXCEPT ![c] = "multi"]
                   /\ ccur' = [ccur EXCEPT ![c] = 0]
                   /\ UNCHANGED <<cret, cp, delivered, crashed>>
              ELSE LET n == Min(p, Len(buf[i]))
                   IN  /\ delivered' = delivered \o Tag(i, SubSeq(buf[i], 1, n))
                       /\ buf' = [buf EXCEPT ![i] = SubSeq(buf[i], n + 1, Len(buf[i]))]
                       /\ Return(c, n, NoErr)
                       /\ UNCHANGED <<tokens, released, mr, csent, crashed>>
    /\ UNCHANGED <<transportVars, config, openVars, done, cerr, nDownloads, fed, derr, pubAt,
                   onceDone, started, workerVars>>

\* downloader.Close(): returns d.err.
Close(c) ==
    /\ ~crashed
    /\ openRet = "ok"
    /\ cpc[c] = "idle"
    /\ \E seen \in Observable(c) :
         cret' = [op |-> "Close", n |-> 0, err |-> seen]
    /\ UNCHANGED <<transportVars, config, openVars, chunkVars, fed, tokens, released, derr,
                   pubAt, onceDone, started, mr, workerVars, cpc, cp, ccur,
                   csent, delivered, crashed>>

\* ----------------------------------------------------- specifications
Next ==
    \/ Open
    \/ \E w \in Workers : Claim(w)
    \/ \E w \in Workers : Download(w)
    \/ \E w \in Workers : Record(w)
    \/ \E w \in Workers : Acquire(w)
    \/ \E c \in Callers : ReadEnter(c)
    \/ \E c \in Callers : MultiRead(c)
    \/ \E c \in Callers : ChunkRead(c)
    \/ \E c \in Callers : Close(c)

\* One goroutine drives Read and Close (the sequential consumer).
Spec == Init /\ [][Next]_vars

\* Several goroutines call Read and Close on the same handle.
SpecRace == InitRace /\ [][Next]_vars

\* One iteration step of worker goroutine w, when there is such a worker.
WorkerRuns(w) ==
    /\ w \in Workers
    /\ (Claim(w) \/ Download(w) \/ Record(w) \/ Acquire(w))

\* A step inside a Read call of consumer c that is under way.
ReadRuns(c) ==
    /\ c \in Callers
    /\ (MultiRead(c) \/ ChunkRead(c))

\* The consumer calls downloader.Read with a non-empty p.
ReadCalled(c) ==
    /\ c \in Callers
    /\ ReadEnter(c)
    /\ cp'[c] > 0

\* The sequential consumer under a fair scheduler: Open returns, every
\* runnable goroutine (worker, or consumer inside Read) is eventually
\* run, and the consumer keeps calling Read with a non-empty p.
Fairness ==
    /\ WF_vars(Open)
    /\ \A w \in 1..MaxConcurrency : WF_vars(WorkerRuns(w))
    /\ WF_vars(ReadRuns(1))
    /\ SF_vars(ReadCalled(1))

SpecLive == Init /\ [][Next]_vars /\ Fairness

\* --------------------------------------------------- signing transport

downloadVars == <<config, openVars, chunkVars, fed, tokens, released, derr,
                  pubAt, onceDone, started, mr, workerVars, callerVars,
                  delivered, crashed>>

\* The header keys a request carries or a signer writes, in the order in
\* which their value slices are laid out on the heap.
KeyOrder == <<"Host", "Date", "Authorization">>
HeaderKeys == {KeyOrder[i] : i \in 1..Len(KeyOrder)}
KeyIndex(k) == CHOOSE i \in 1..Len(KeyOrder) : KeyOrder[i] = k

\* What a Signer may do to the header of the request it is given: it sets
\* Authorization to a signature and may also set, overwrite in place or
\* delete the Date header.
Signatures == {"sig1", "sig2"}
DateOps == {"keep", "set", "overwrite", "del"}

\* A []string of n header values.
Values(n) == [i \in 1..n |-> "v"]

\* What the http.Header at address m holds: for each key whether it is
\* present, and its values.
Content(m) ==
    [k \in HeaderKeys |->
        IF hmaps[m][k] = 0
        THEN [has |-> FALSE, vals |-> <<>>]
        ELSE [has |-> TRUE, vals |-> hslices[hmaps[m][k]]]]

\* A clone that keeps the Header map of the original ("*c = *r" alone).
cloneRequestSharedHeader(r) ==
    [req |-> [id |-> r.id + 1, hdr |-> r.hdr],
     maps |-> hmaps,
     slices |-> hslices]

\* cloneRequest(r): a new request struct with a new Header map, each
\* present key pointing to a new slice that holds a copy of the values.
cloneRequest(r) ==
    LET src == hmaps[r.hdr]
        base == Len(hslices)
    IN  [req |-> [id |-> r.id + 1, hdr |-> Len(hmaps) + 1],
         maps |-> Append(hmaps,
                    [k \in HeaderKeys |->
                        IF src[k] = 0 THEN 0 ELSE base + KeyIndex(k)]),
         slices |-> hslices \o
                    [i \in 1..Len(KeyOrder) |->
                        IF src[KeyOrder[i]] = 0
                        THEN <<>>
                        ELSE hslices[src[KeyOrder[i]]]]]

\* Transport.transport(): t.Transport, or http.DefaultTransport when nil.
transport == IF tTransport # "nil" THEN tTransport ELSE "default"

\* A Transport and a request about to be passed to RoundTrip: each header
\* key is absent or holds up to MaxValues values.
InitTransport ==
    /\ DownloaderInit(1)
    /\ concurrency = 1
    /\ minPartSize = 1
    /\ tSigner \in {"nil", "set"}
    /\ tTransport \in {"nil", "custom"}
    /\ \E cnt \in [HeaderKeys -> 0..MaxValues] :
         /\ hmaps = <<[k \in HeaderKeys |->
                         IF cnt[k] = 0 THEN 0 ELSE KeyIndex(k)]>>
         /\ hslices = [i \in 1..Len(KeyOrder) |-> Values(cnt[KeyOrder[i]])]
    /\ treq = [id |-> 1, hdr |-> 1]
    /\ callerHeader = Content(1)
    /\ tpc = "call"
    /\ signedReq = {}
    /\ forwarded = [to |-> "none", req |-> 0, hdr |-> 0]
    /\ tret = "none"

\* RoundTrip up to the call of Sign: "r = cloneRequest(r)", then the
\* return of an error when no signer is set.
RoundTripBegin ==
    /\ tpc = "call"
    /\ LET c == cloneRequest(treq)
       IN  /\ treq' = c.req
           /\ hmaps' = c.maps
           /\ hslices' = c.slices
    /\ IF tSigner = "nil"
       THEN /\ tret' = "err:nosigner"
            /\ tpc' = "done"
       ELSE /\ tpc' = "sign"
            /\ UNCHANGED tret
    /\ UNCHANGED <<downloadVars, tSigner, tTransport, callerHeader,
                   signedReq, forwarded>>

\* "t.Signer.Sign(r)": the signer writes to the header of the request it
\* was given.
Sign ==
    /\ tpc = "sign"
    /\ \E sig \in Signatures : \E op \in DateOps :
         LET m == treq.hdr
             a == Len(hslices) + 1
             s1 == Append(hslices, <<sig>>)
             m1 == [hmaps[m] EXCEPT !["Authorization"] = a]
             d == m1["Date"]
         IN  CASE op = "keep" ->
                    /\ hslices' = s1
                    /\ hmaps' = [hmaps EXCEPT ![m] = m1]
               [] op = "set" ->
                    /\ hslices' = Append(s1, <<"d">>)
                    /\ hmaps' = [hmaps EXCEPT ![m] = [m1 EXCEPT !["Date"] = a + 1]]
               [] op = "overwrite" ->
                    /\ d # 0
                    /\ Len(hslices[d]) > 0
                    /\ hslices' = [s1 EXCEPT ![d] = [@ EXCEPT ![1] = "d"]]
                    /\ hmaps' = [hmaps EXCEPT ![m] = m1]
               [] op = "del" ->
                    /\ hslices' = s1
                    /\ hmaps' = [hmaps EXCEPT ![m] = [m1 EXCEPT !["Date"] = 0]]
    /\ signedReq' = signedReq \cup {treq.id}
    /\ tpc' = "forward"
    /\ UNCHANGED <<downloadVars, tSigner, tTransport, treq, callerHeader,
                   forwarded, tret>>

\* "return t.transport().RoundTrip(r)": the underlying RoundTripper is
\* called with r and answers with a response or an error.
Forward ==
    /\ tpc = "forward"
    /\ forwarded' = [to |-> transport, req |-> treq.id, hdr |-> treq.hdr]
    /\ \E res \in {"resp", "err:transport"} : tret' = res
    /\ tpc' = "done"
    /\ UNCHANGED <<downloadVars, tSigner, tTransport, hmaps, hslices, treq,
                   callerHeader, signedReq>>

NextTransport == RoundTripBegin \/ Sign \/ Forward

\* One call of Transport.RoundTrip.
SpecTransport == InitTransport /\ [][NextTransport]_vars

\* ------------------------------------------------------------- claims

Failed(i) == plan[i] \notin {"none", "206"}
AllDownloadsOk == \A i \in 1..N : ~Failed(i)

\* The bytes of chunk i among those delivered, in delivery order.
DeliveredOf(i) == SelectSeq(delivered, LAMBDA x : x[1] = i)

RECURSIVE ConcatPayloads(_)
ConcatPayloads(n) ==
    IF n = 0 THEN <<>> ELSE ConcatPayloads(n - 1) \o Tag(n, Payload(n))

\* The concatenation of the chunk payloads in chunk-index order.
Stream == ConcatPayloads(N)

IsPrefix(s, u) == Len(s) <= Len(u) /\ SubSeq(u, 1, Len(s)) = s

ReadReturnedEOF == cret.op = "Read" /\ cret.err = EOF
ReadReturnedError == cret.op = "Read" /\ cret.err \notin {NoErr, EOF, "pending"}

\* C1 (order preservation): while every Download so far has succeeded,
\* the bytes delivered by the successive Read calls are a prefix of the
\* concatenation of the chunk payloads in index order, and once Read has
\* returned end-of-stream they are exactly that concatenation.
C1_OrderPreserved ==
    (openRet = "ok" /\ AllDownloadsOk) =>
        /\ IsPrefix(delivered, Stream)
        /\ ReadReturnedEOF => delivered = Stream

\* C1 witness: three chunks fetched by two workers, all delivered and
\* end-of-stream returned.
C1_Witness ==
    /\ openRet = "ok" /\ AllDownloadsOk
    /\ N = 3 /\ concurrency = 2
    /\ ReadReturnedEOF
    /\ delivered = Stream
    /\ Len(delivered) = 3

\* C2 (partition coverage): after a successful Open on an object of
\* L >= 0 bytes the chunk ranges start at 0, are contiguous, each hold
\* between 1 and minPartSize bytes, and the last one ends at byte L-1.
C2_PartitionCoverage ==
    (openRet = "ok" /\ ParseInt(header).val >= 0) =>
        LET L == ParseInt(header).val
        IN  /\ (N = 0) <=> (L = 0)
            /\ N > 0 => ranges[1].start = 0 /\ ranges[N].end = L - 1
            /\ \A i \in 1..N :
                 /\ ranges[i].end - ranges[i].start + 1 \in 1..minPartSize
                 /\ i < N => ranges[i + 1].start = ranges[i].end + 1

\* The lowest-index failed chunk, when every chunk below it has been
\* downloaded successfully (so that it is the lowest of the whole run).
IsLowestFailed(i) ==
    /\ i \in 1..N
    /\ Failed(i)
    /\ \A j \in 1..(i - 1) : plan[j] = "206"

C4_NoBytesPastFailedChunk ==
    \A i \in 1..N : Failed(i) =>
        \A k \in 1..Len(delivered) : delivered[k][1] < i

\* C5 (idempotent lazy start): the pool has been started at most once;
\* after the start there are exactly concurrency worker routines, before
\* it none.
C5_PoolStartedOnce ==
    /\ started = (IF onceDone THEN concurrency ELSE 0)
    /\ Cardinality({w \in Workers : wpc[w] # "off"}) = started

\* C5 witness: two callers are inside Read at the same time (each has
\* passed d.once.Do) and the pool was started once.
C5_Witness ==
    /\ nCallers >= 2
    /\ \A c \in Callers : cpc[c] # "idle"
    /\ onceDone
    /\ started = concurrency

\* C6 (no chunk traffic before the first read): until a Read has been
\* called on the handle no chunk has left the work queue and no Download
\* has run.
C6_NoTrafficBeforeFirstRead ==
    ~onceDone =>
        /\ fed = 0
        /\ \A i \in 1..N : nDownloads[i] = 0 /\ ~done[i] /\ plan[i] = "none"

\* C6 witness: Open has succeeded with chunks to fetch, Close has been
\* called, Read has not, and the feeder is still on its first send.
C6_Witness ==
    /\ openRet = "ok"
    /\ N >= 2
    /\ ~onceDone
    /\ cret.op = "Close"
    /\ fed = 0

\* C7 (backpressure bound): the chunks claimed from the work queue exceed
\* the chunks drained by the consumer by at most concurrency.
C7_BackpressureBound == fed - released <= concurrency

\* C7 witness: more chunks than workers, the consumer has drained
\* nothing, and every worker waits on d.readAhead after its Download.
C7_Witness ==
    /\ N > concurrency
    /\ released = 0
    /\ fed = concurrency
    /\ \A w \in Workers : wpc[w] = "acquire"

\* C8 (probe failure): after a probe answered with a status other than
\* 200, Open has returned the status error, there is no chunk, nothing
\* was queued or requested, and no worker runs.
C8_ProbeFailure ==
    probe \in {"206", "403"} =>
        /\ openRet = "err:status"
        /\ N = 0
        /\ fed = 0
        /\ started = 0
        /\ cret.op = "none"

\* C8 witness: the probe was answered 403 with a well-formed length.
C8_Witness ==
    /\ probe = "403"
    /\ header = <<"3">>
    /\ openRet = "err:status"

\* C9 (Content-Length validation): after a 200 probe whose Content-Length
\* is not a non-negative integer, Open has returned the format error.
C9_ContentLengthValidated ==
    (probe = "200" /\ ~(ParseInt(header).ok /\ ParseInt(header).val >= 0)) =>
        openRet = "err:format"

\* C10 (permanent failure): a stored error is never cleared; while one is
\* stored every Read that starts returns it at once (no caller gets past
\* the test of d.err) and every Close returns an error; while none is
\* stored Close returns nil.
C10_PermanentFailure ==
    [][/\ derr # NoErr => derr' # NoErr
       /\ derr # NoErr =>
            \A c \in Callers : cpc[c] = "idle" => cpc'[c] = "idle"
       /\ (cret'.op = "Close" /\ cret' # cret) =>
            (cret'.err = NoErr <=> derr = NoErr)]_vars

\* C11 (failed chunk read returns its error): a chunk.Read on a chunk
\* whose Download has failed returns that Download's error with zero
\* bytes: it delivers nothing, reports no end-of-data and releases no slot.
C11_FailedChunkReadReturnsError ==
    [][\A c \in Callers :
         (/\ cpc[c] = "chunk"
          /\ Failed(ccur[c])
          /\ cpc'[c] # "chunk") =>
            /\ cpc'[c] = "idle"
            /\ cret' = [op |-> "Read", n |-> 0, err |-> ErrorOf(plan[ccur[c]])]
            /\ delivered' = delivered
            /\ released' = released]_vars

\* One step of worker w's loop.
WorkerStep(w) == Claim(w) \/ Download(w) \/ Record(w) \/ Acquire(w)

AllHandedOutAndDownloaded ==
    /\ onceDone
    /\ fed = N
    /\ \A i \in 1..N : done[i]

\* C12 (workers terminate): once every chunk has been handed out and
\* downloaded, a worker at the head of its loop leaves it (it is not
\* stuck on the work queue), and, when all downloads succeeded and the
\* consumer has drained the stream, every worker has exited or can still
\* take a step (none is stuck on the admission window either).
C12_WorkersTerminate ==
    AllHandedOutAndDownloaded =>
        \A w \in Workers :
            /\ wpc[w] = "recv" => ENABLED Claim(w)
            /\ (AllDownloadsOk /\ mr > N) =>
                 (wpc[w] = "exited" \/ ENABLED WorkerStep(w))

\* The workers that have claimed chunk i and not yet finished its loop body.
Holders(i) == {w \in Workers : wchunk[w] = i}

\* C13 (each chunk is downloaded at most once): Download has run at most
\* once on every chunk and never on a chunk still in the work queue; a
\* chunk is held by at most one worker, and only after it left the queue;
\* the chunks that have left the queue are exactly the first fed ones
\* (ascending claim order), each of them held or already downloaded.
C13_DownloadedAtMostOnce ==
    \A i \in 1..N :
        /\ nDownloads[i] <= 1
        /\ Cardinality(Holders(i)) <= 1
        /\ i > fed => (nDownloads[i] = 0 /\ Holders(i) = {})
        /\ i <= fed => (nDownloads[i] = 1 \/ Holders(i) # {})

\* C13 witness: three chunks, two workers, every chunk downloaded once,
\* one of them with a body that broke.
C13_Witness ==
    /\ N = 3 /\ concurrency = 2
    /\ \A i \in 1..N : nDownloads[i] = 1
    /\ \E i \in 1..N : plan[i] = "206broken"

\* C14 (completion always fires): c.done is closed exactly when Download
\* has run on the chunk, whatever the answer of the remote end was, so a
\* caller waiting in chunk.Read on a downloaded chunk, failed or not, can
\* go on.
C14_CompletionAlwaysFires ==
    /\ \A i \in 1..N :
         /\ done[i] <=> nDownloads[i] = 1
         /\ plan[i] # "none" => done[i]
    /\ \A c \in Callers :
         (cpc[c] = "chunk" /\ plan[ccur[c]] # "none") => ENABLED ChunkRead(c)

\* C14 witness: a caller is inside chunk.Read on a chunk whose Download
\* has just failed; c.done is closed and the worker has not yet stored
\* the error.
C14_Witness ==
    \E c \in Callers : \E w \in Workers :
        /\ cpc[c] = "chunk"
        /\ Failed(ccur[c])
        /\ done[ccur[c]]
        /\ wchunk[w] = ccur[c]
        /\ wpc[w] = "record"

\* The chunks whose buffer the consumer has dropped at end-of-data.
Drained == {i \in 1..N : buf[i] = Nil}

\* C15 (slot release discipline): the slots released so far are one per
\* chunk that chunk.Read has reported at end-of-data, no more; such a
\* chunk was downloaded and, when its Download succeeded, every byte of
\* it was delivered before the release; a chunk with bytes still in its
\* buffer has released nothing.
C15_ReleaseOncePerChunk ==
    /\ released = Cardinality(Drained)
    /\ tokens <= released
    /\ \A i \in Drained :
         /\ done[i]
         /\ plan[i] = "206" => DeliveredOf(i) = Tag(i, Payload(i))
         /\ IsPrefix(DeliveredOf(i), Tag(i, Payload(i)))

\* C15 witness: a two-byte chunk was read one byte at a time; its slot
\* was released once, after the second byte.
C15_Witness ==
    /\ N >= 1
    /\ plan[1] = "206"
    /\ Len(DeliveredOf(1)) = 2
    /\ buf[1] = Nil
    /\ released = 1

\* C16 (re-reading a consumed chunk): a chunk.Read with a non-empty p on
\* a successfully downloaded chunk whose buffer was dropped at
\* end-of-data does not crash, delivers nothing and releases no further
\* slot.  The step is the one that takes a caller out of chunk.Read, or
\* the panic that ends the program.
C16_RereadYieldsEOF ==
    [][\A c \in Callers :
         (/\ cpc[c] = "chunk"
          /\ plan[ccur[c]] = "206"
          /\ buf[ccur[c]] = Nil
          /\ cp[c] > 0
          /\ (cpc'[c] # "chunk" \/ crashed')) =>
            /\ ~crashed'
            /\ delivered' = delivered
            /\ released' = released]_vars

\* C17 (non-206 chunk response is fatal): once a chunk's range GET was
\* answered with a status other than 206, nothing of the body is in the
\* chunk's buffer or reaches the consumer, and the status error is either
\* in the hands of the worker that is about to store it, or d.err is set.
C17_Non206IsFatal ==
    \A i \in 1..N :
        plan[i] = "200" =>
            /\ (buf[i] = Nil \/ buf[i] = <<>>)
            /\ DeliveredOf(i) = <<>>
            /\ \/ derr # NoErr
               \/ \E w \in Workers :
                    /\ wpc[w] = "record"
                    /\ wchunk[w] = i
                    /\ werr[w] = "err:status"

\* C17 witness: a chunk was answered with 200 and the worker has stored
\* the status error in d.err.
C17_Witness ==
    \E i \in 1..N :
        /\ plan[i] = "200"
        /\ derr = "err:status"


\* The consumer c stands in chunk.Read right before "c.readAhead <- true":
\* the chunk is closed, has no error, and its buffer answers io.EOF.
AboutToRelease(c) ==
    /\ ~crashed
    /\ cpc[c] = "chunk"
    /\ done[ccur[c]]
    /\ cerr[ccur[c]] = NoErr
    /\ buf[ccur[c]] # Nil
    /\ BufferAtEOF(buf[ccur[c]], cp[c])

\* C19 (consumer never blocks on release): whenever the consumer is about
\* to send on readAhead, the channel holds fewer than `concurrency` tokens,
\* so the step of chunk.Read that sends is enabled.
C19_ReleaseNeverBlocks ==
    \A c \in Callers :
        AboutToRelease(c) =>
            /\ tokens < concurrency
            /\ ENABLED ChunkRead(c)

\* C19 witness: the consumer is about to release a slot while an earlier
\* token is still unreceived in a channel of capacity two.
C19_Witness ==
    \E c \in Callers :
        /\ AboutToRelease(c)
        /\ concurrency = 2
        /\ tokens = 1


\* The consumer c waits in chunk.Read for the chunk at its cursor.
WaitsOnChunk(c) == cpc[c] = "chunk" /\ ~done[ccur[c]]

\* Open failed, or some Download failed.
DownloadPremiseBroken == openRet \notin {"none", "ok"} \/ ~AllDownloadsOk

\* C18 (progress, no deadlock): under fair scheduling, with a consumer
\* that keeps calling Read, either Open or some Download fails or the
\* consumer eventually gets end-of-stream after the bytes of all N
\* chunks; and whenever the consumer waits on the chunk at its cursor,
\* some worker is able to take a step (not every worker waits for a slot
\* or for the queue).
C18_Progress ==
    /\ [](\A c \in Callers :
            WaitsOnChunk(c) => \E w \in Workers : ENABLED WorkerStep(w))
    /\ <>(DownloadPremiseBroken \/ (ReadReturnedEOF /\ delivered = Stream))

\* C18 witness: the consumer waited on a chunk beyond the admission
\* window (more chunks than workers) and has received end-of-stream
\* after all of them.
C18_Witness ==
    /\ openRet = "ok" /\ AllDownloadsOk
    /\ N > concurrency
    /\ ReadReturnedEOF
    /\ delivered = Stream


NothingForwarded == forwarded.to = "none"

\* C20 (signing transport): RoundTrip never forwards an unsigned request.
\* With no Signer the underlying transport is never called and the call
\* returns the "no signer" error; otherwise whatever reaches the
\* underlying transport is a request struct other than the caller's, with
\* a Header map other than the caller's, that was passed to Sign before;
\* and the caller's header holds what it held when RoundTrip was called.
C20_NeverForwardsUnsigned ==
    /\ tSigner = "nil" => NothingForwarded
    /\ (tSigner = "nil" /\ tpc = "done") => tret = "err:nosigner"
    /\ ~NothingForwarded =>
         /\ forwarded.req # 1
         /\ forwarded.hdr # 1
         /\ forwarded.req \in signedReq
         /\ Content(forwarded.hdr)["Authorization"].has
         /\ Content(forwarded.hdr)["Authorization"].vals[1] \in Signatures
    /\ Content(1) = callerHeader

\* C20 witness: a request whose Date header had a value was forwarded
\* after the signer overwrote that value in place; the caller's header
\* still holds the old value.
C20_Witness ==
    /\ tpc = "done"
    /\ ~NothingForwarded
    /\ callerHeader["Date"].has
    /\ callerHeader["Date"].vals[1] = "v"
    /\ Content(forwarded.hdr)["Date"].has
    /\ Content(forwarded.hdr)["Date"].vals[1] = "d"
    /\ Len(Content(forwarded.hdr)["Date"].vals) = Len(callerHeader["Date"].vals)

====
